---- MODULE Spec2Model ----
(***************************************************************************)
(* Model of application/plotlydash/dashboard_log.py: the training-log      *)
(* dashboard (training-load series, weekly calendar rows, bubble metric    *)
(* remapping) and the Dash callbacks that drive it.                        *)
(*                                                                         *)
(* Numbers.  Python floats are held as exact fractions <<n, d>> in lowest  *)
(* terms (d > 0), so equal values are equal tuples.  Dates are day numbers *)
(* counted from a Monday (day 0), timestamps are whole hours UTC.  Strings *)
(* built by f-strings are held as the sequence of their pieces, every      *)
(* piece a string, the character '>' always a piece of its own.            *)
(***************************************************************************)
EXTENDS Integers, Sequences, FiniteSets, TLC

VARIABLES
  activities,   \* rows of the Activity table, in the order the query returns them
  today,        \* the server's current date
  ticks,        \* midnights passed since the page was opened
  loaded,       \* the page's initial callbacks have run
  n_clicks,     \* 'add-weeks' n_clicks (0 stands for None and for 0, line 134)
  children,     \* 'calendar-rows' children
  bubble_type,  \* 'bubble-dropdown' value
  refire,       \* week-cal figures were inserted and the metric callback is due
  call_days,    \* history: today as read by each calendar-rows callback
  pc,           \* update_figure / calc_ctl_atl: position
  df,           \* update_figure: the sorted frame
  atl_pre, atl_post, ctl_pre, ctl_post,  \* calc_ctl_atl: the four lists
  tss_fig       \* update_figure: the figure returned to 'tss-graph'

vars == <<activities, today, ticks, loaded, n_clicks, children, bubble_type,
          refire, call_days, pc, df, atl_pre, atl_post, ctl_pre, ctl_post,
          tss_fig>>

dashVars == <<today, ticks, loaded, n_clicks, children, bubble_type, refire,
              call_days>>

loadVars == <<pc, df, atl_pre, atl_post, ctl_pre, ctl_post, tss_fig>>

----------------------------------------------------------------------------
(* Bounds of the model *)

MaxActs == 2

MaxClicks == 2

MaxTicks == 1

MaxLoadActs == 3

MaxGapDays == 2

----------------------------------------------------------------------------
(* Arithmetic *)

RECURSIVE GCD(_, _)
GCD(a, b) == IF b = 0 THEN a ELSE GCD(b, a % b)

\* The fraction n/d (n >= 0, d > 0) in lowest terms.
Rat(n, d) == LET g == GCD(n, d) IN <<n \div g, d \div g>>

\* The product, reduced crosswise before multiplying.
RatMul(p, q) ==
  LET g1 == GCD(p[1], q[2])
      g2 == GCD(q[1], p[2])
  IN IF p[1] = 0 \/ q[1] = 0 THEN <<0, 1>>
     ELSE <<(p[1] \div g1) * (q[1] \div g2), (p[2] \div g2) * (q[2] \div g1)>>

RatAdd(p, q) ==
  LET l == (p[2] \div GCD(p[2], q[2])) * q[2]
  IN Rat(p[1] * (l \div p[2]) + q[1] * (l \div q[2]), l)

RECURSIVE RatPow(_, _)
RatPow(p, k) == IF k = 0 THEN <<1, 1>> ELSE RatMul(p, RatPow(p, k - 1))

\* Python's round(n/d) and the rounding of a '.0f' format: half to even.
RoundHalfEven(n, d) ==
  LET q == n \div d
      r == n % d
  IN IF 2 * r < d THEN q
     ELSE IF 2 * r > d THEN q + 1
     ELSE IF q % 2 = 0 THEN q ELSE q + 1

\* f'{x:.0f}' of x = p[1]/p[2].
Fmt0(p) == <<ToString(RoundHalfEven(p[1], p[2]))>>

\* f'{x:.1f}' of x = p[1]/p[2].
Fmt1(p) ==
  LET t == RoundHalfEven(10 * p[1], p[2])
  IN <<ToString(t \div 10), ".", ToString(t % 10)>>

RECURSIVE SumOf(_, _)
SumOf(s, field) ==
  IF s = <<>> THEN 0 ELSE s[1][field] + SumOf(Tail(s), field)

----------------------------------------------------------------------------
(* application.util, which the dashboard imports *)

M_PER_MI_x100 == 160934

FT_PER_M_x100000 == 328084

\* 'H:MM:SS', held as its three fields.
seconds_to_string(s) == <<s \div 3600, (s % 3600) \div 60, s % 60>>

string_to_seconds(str) == 3600 * str[1] + 60 * str[2] + str[3]

----------------------------------------------------------------------------
(* Dates *)

DenverUtcOffsetHours == 7

\* .dt.tz_localize(utc).dt.tz_convert('America/Denver') then .dt.date
LocalDate(recorded) == (recorded - DenverUtcOffsetHours) \div 24

\* date.weekday(): Monday 0 .. Sunday 6
Weekday(day) == day % 7

\* df.sort_values(by='recorded'): insertion of one row, ties after their equals.
RECURSIVE InsertByRecorded(_, _)
InsertByRecorded(s, a) ==
  IF s = <<>> THEN <<a>>
  ELSE IF a.recorded < s[1].recorded THEN <<a>> \o s
  ELSE <<s[1]>> \o InsertByRecorded(Tail(s), a)

RECURSIVE SortByRecorded(_)
SortByRecorded(s) ==
  IF s = <<>> THEN <<>>
  ELSE InsertByRecorded(SortByRecorded(SubSeq(s, 1, Len(s) - 1)), s[Len(s)])

----------------------------------------------------------------------------
(* create_week_sum *)

MovingTimeStr(moving_time_s) ==
  IF moving_time_s < 30 THEN <<"--:--">>
  ELSE LET hrs == moving_time_s \div 3600
           mins == RoundHalfEven(moving_time_s - hrs * 3600, 60)
       IN <<ToString(hrs), "h", ToString(mins), "m">>

create_week_sum(df_week, date_start) ==
  [ date_start |-> date_start,
    date_end   |-> date_start + 6,
    time_str   |-> MovingTimeStr(SumOf(df_week, "moving_time_s")),
    elev_str   |-> <<ToString(RoundHalfEven(
                       SumOf(df_week, "elevation_m") * FT_PER_M_x100000, 100000)),
                     " ft">>,
    dist_str   |-> Fmt1(Rat(SumOf(df_week, "distance_m") * 100, M_PER_MI_x100))
                     \o <<" mi">> ]

----------------------------------------------------------------------------
(* create_week_cal *)

\* '<a href="/dash-saved-activity/{id}">'
Anchor(id) == <<"<a href=\"/dash-saved-activity/", ToString(id), "\"", ">">>

AnchorEnd == <<"</a", ">">>

\* sizeref = reference / (0.5 * 100 ** 2)
FreshSizeref == Rat(160934 * 262, 100 * 10 * 5000)

CustomData(a) ==
  [ id          |-> a.id,
    dist_mi     |-> Rat(a.distance_m * 100, M_PER_MI_x100),
    moving_time |-> seconds_to_string(a.moving_time_s),
    elev_ft     |-> Rat(a.elevation_m * FT_PER_M_x100000, 100000),
    tss         |-> Rat(a.tss, 1) ]

create_week_cal(df_week) ==
  LET n == Len(df_week)
      weekdays == [k \in 1..n |-> Weekday(LocalDate(df_week[k].recorded))]
  IN [ rest       |-> {x \in 0..6 : \A k \in 1..n : weekdays[k] # x},
       x          |-> weekdays,
       text       |-> [k \in 1..n |->
                         Anchor(df_week[k].id)
                           \o Fmt1(Rat(df_week[k].distance_m * 100, M_PER_MI_x100))
                           \o AnchorEnd],
       size       |-> [k \in 1..n |-> Rat(df_week[k].distance_m, 1)],
       sizeref    |-> FreshSizeref,
       customdata |-> [k \in 1..n |-> CustomData(df_week[k])],
       transition_duration |-> 0 ]

----------------------------------------------------------------------------
(* update_week_cal *)

\* txt.split('>')[0]
RECURSIVE SplitFirst(_)
SplitFirst(txt) ==
  IF txt = <<>> \/ txt[1] = ">" THEN <<>>
  ELSE <<txt[1]>> \o SplitFirst(Tail(txt))

\* Variant of Href: the whole label is taken for the link prefix.
Href_unsplit(txt) == txt \o <<">">>

\* f"{txt.split('>')[0]}>"
Href(txt) == SplitFirst(txt) \o <<">">>

Metrics == {"Distance", "Time", "Elevation", "TSS"}

\* Variant of DistanceSizes: the marker's current sizes are read.
DistanceSizes_current(fig) == fig.size

\* dists_mi = [float(cdata[4]) for cdata in fig.data[0].customdata]
DistanceSizes(fig) ==
  [k \in 1..Len(fig.customdata) |-> fig.customdata[k].dist_mi]

\* Variant of Branch: the chain ends in a plain else.
Branch_else(b) == IF b \in {"Time", "Distance", "Elevation"} THEN b ELSE "TSS"

\* The if / elif chain at lines 485-512: the branch taken, "none" when no
\* condition holds.
Branch(b) == IF b \in Metrics THEN b ELSE "none"

update_week_cal(fig, b) ==
  LET n == Len(fig.text)
      hrefs == [k \in 1..n |-> Href(fig.text[k])]
      cdata == fig.customdata
      secs == [k \in 1..n |-> string_to_seconds(cdata[k].moving_time)]
      shown ==
        CASE Branch(b) = "Time" ->
               [fig EXCEPT
                  !.text = [k \in 1..n |->
                     hrefs[k]
                       \o <<ToString(secs[k] \div 3600), "hr",
                            ToString(RoundHalfEven(secs[k] % 3600, 60)), "m">>
                       \o AnchorEnd],
                  !.size = [k \in 1..n |-> Rat(secs[k], 1)],
                  !.sizeref = Rat(35 * 3600, 10 * 5000)]
          [] Branch(b) = "Distance" ->
               [fig EXCEPT
                  !.text = [k \in 1..n |->
                     hrefs[k] \o Fmt1(DistanceSizes(fig)[k]) \o AnchorEnd],
                  !.size = DistanceSizes(fig),
                  !.sizeref = Rat(262, 10 * 5000)]
          [] Branch(b) = "Elevation" ->
               [fig EXCEPT
                  !.text = [k \in 1..n |->
                     hrefs[k] \o Fmt0(cdata[k].elev_ft) \o AnchorEnd],
                  !.size = [k \in 1..n |-> cdata[k].elev_ft],
                  !.sizeref = Rat(7000, 5000)]
          [] Branch(b) = "TSS" ->
               [fig EXCEPT
                  !.text = [k \in 1..n |->
                     hrefs[k] \o Fmt1(cdata[k].tss) \o AnchorEnd],
                  !.size = [k \in 1..n |-> cdata[k].tss],
                  !.sizeref = Rat(250, 5000)]
          [] OTHER -> fig
  IN [shown EXCEPT !.transition_duration = 1000]

----------------------------------------------------------------------------
(* update_calendar, the 'calendar-rows' callback *)

\* ix, mon_latest, mon_last of loop index i
WeekBounds(i, day) ==
  LET idx == Weekday(day)
      ix == idx + 7 * (i - 1)
  IN [mon_latest |-> day - ix, mon_last |-> day - (ix + 7)]

\* Variant of InWeek: the upper end is taken closed.
InWeek_closed(a, mon_last, mon_latest) ==
  /\ LocalDate(a.recorded) <= mon_latest
  /\ LocalDate(a.recorded) >= mon_last

\* df[(df['recorded'].dt.date < mon_latest) & (df['recorded'].dt.date >= mon_last)]
InWeek(a, mon_last, mon_latest) ==
  /\ LocalDate(a.recorded) < mon_latest
  /\ LocalDate(a.recorded) >= mon_last

WeekFrame(frame, mon_last, mon_latest) ==
  SelectSeq(frame, LAMBDA a : InWeek(a, mon_last, mon_latest))

\* One dbc.Row; mon_last and mon_latest are kept beside it for the statements
\* about the week ranges.
WeekRow(i, day, frame) ==
  LET w == WeekBounds(i, day)
      df_week == WeekFrame(frame, w.mon_last, w.mon_latest)
  IN [ index      |-> i,
       mon_last   |-> w.mon_last,
       mon_latest |-> w.mon_latest,
       summary    |-> create_week_sum(df_week, w.mon_last),
       figure     |-> create_week_cal(df_week) ]

\* range(3 * n_clicks, 3 * (n_clicks + 1))
RowIndices(n) == [k \in 1..3 |-> 3 * n + (k - 1)]

CalendarRows(n, rows, day, acts) ==
  LET frame == SortByRecorded(acts)
      idxs == RowIndices(n)
  IN rows \o [k \in 1..Len(idxs) |-> WeekRow(idxs[k], day, frame)]

\* the 'week-cal' figure callback
MetricCallback(b, rows) ==
  [k \in 1..Len(rows) |->
     [rows[k] EXCEPT !.figure = update_week_cal(rows[k].figure, b)]]

----------------------------------------------------------------------------
(* calc_ctl_atl *)

\* delta_t_days; the model's load timestamps are whole days apart, so that
\* the power below stays a fraction.
DeltaDays(frame, i) == (frame[i].recorded - frame[i - 1].recorded) \div 24

\* Variant of PreNext: the decay is applied before the stress is added.
PreNext_decay_first(pre_prev, tss_prev, n, delta) ==
  RatAdd(RatMul(pre_prev, RatPow(Rat(n - 1, n), delta)), Rat(tss_prev, n))

\* (pre[i-1] + tss[i-1] / n) * ((n - 1) / n) ** delta_t_days, n = 7.0 or 42.0
PreNext(pre_prev, tss_prev, n, delta) ==
  RatMul(RatAdd(pre_prev, Rat(tss_prev, n)), RatPow(Rat(n - 1, n), delta))

\* tss[i] / n + post[i-1] * ((n - 1) / n) ** delta_t_days
PostNext(post_prev, tss_i, n, delta) ==
  RatAdd(Rat(tss_i, n), RatMul(post_prev, RatPow(Rat(n - 1, n), delta)))

\* Variant of CalcFirst: an empty frame gives empty lists.
CalcFirst_default(frame) ==
  [raised   |-> FALSE,
   atl_pre  |-> IF Len(frame) = 0 THEN <<>> ELSE << <<0, 1>> >>,
   atl_post |-> IF Len(frame) = 0 THEN <<>> ELSE << Rat(frame[1].tss, 7) >>,
   ctl_pre  |-> IF Len(frame) = 0 THEN <<>> ELSE << <<0, 1>> >>,
   ctl_post |-> IF Len(frame) = 0 THEN <<>> ELSE << Rat(frame[1].tss, 42) >>]

\* Lines 216-224: df['tss'].iloc[0] raises IndexError on an empty frame.
CalcFirst(frame) ==
  IF Len(frame) = 0
  THEN [raised |-> TRUE, atl_pre |-> <<>>, atl_post |-> <<>>,
        ctl_pre |-> <<>>, ctl_post |-> <<>>]
  ELSE [raised   |-> FALSE,
        atl_pre  |-> << <<0, 1>> >>,
        atl_post |-> << RatAdd(Rat(frame[1].tss, 7), <<0, 1>>) >>,
        ctl_pre  |-> << <<0, 1>> >>,
        ctl_post |-> << RatAdd(Rat(frame[1].tss, 42), <<0, 1>>) >>]

NoFigure == [returned |-> FALSE]

\* create_tss_fig: the series the figure is drawn from
create_tss_fig(frame, apre, apost, cpre, cpost) ==
  [ returned |-> TRUE,
    tss      |-> [k \in 1..Len(frame) |-> frame[k].tss],
    ctl      |-> cpre \o cpost,
    atl      |-> apre \o apost ]

----------------------------------------------------------------------------
(* The dashboard: page load, clicks, metric changes, the clock.  One        *)
(* interaction at a time: the next one waits for the callbacks of the      *)
(* previous one.                                                           *)

MarathonDay ==
  [moving_time_s |-> 7199, distance_m |-> 42195, elevation_m |-> 1000, tss |-> 250]

EasyDay ==
  [moving_time_s |-> 3661, distance_m |-> 5000, elevation_m |-> 100, tss |-> 42]

At(r, p) ==
  [recorded |-> r, moving_time_s |-> p.moving_time_s, distance_m |-> p.distance_m,
   elevation_m |-> p.elevation_m, tss |-> p.tss]

\* Recorded in hours UTC: noon of day 40; 03:00 of day 71, which is the
\* evening of day 70 (a Monday) in Denver; noon of day 70.
ActivityPool ==
  { At(40 * 24 + 12, EasyDay), At(71 * 24 + 3, MarathonDay),
    At(70 * 24 + 12, EasyDay) }

\* One date for every weekday.
TodayChoices == 70..76

\* What the dropdown offers, and one value it does not.
SelectorValues == Metrics \cup {"Pace"}

WithIds(s) ==
  [k \in 1..Len(s) |->
     [id |-> k, recorded |-> s[k].recorded, moving_time_s |-> s[k].moving_time_s,
      distance_m |-> s[k].distance_m, elevation_m |-> s[k].elevation_m,
      tss |-> s[k].tss]]

ActivityTables ==
  { WithIds(s) : s \in UNION { [1..n -> ActivityPool] : n \in 0..MaxActs } }

LoadIdle ==
  /\ pc = "idle"
  /\ df = <<>>
  /\ atl_pre = <<>>
  /\ atl_post = <<>>
  /\ ctl_pre = <<>>
  /\ ctl_post = <<>>
  /\ tss_fig = NoFigure

DashIdle ==
  /\ ticks = 0
  /\ loaded = FALSE
  /\ n_clicks = 0
  /\ children = <<>>
  /\ bubble_type = "Distance"
  /\ refire = FALSE
  /\ call_days = <<>>

Init ==
  /\ activities \in ActivityTables
  /\ today \in TodayChoices
  /\ DashIdle
  /\ LoadIdle

\* The page opens: 'calendar-rows' is first computed with n_clicks = None.
LoadPage ==
  /\ ~loaded
  /\ ~refire
  /\ loaded' = TRUE
  /\ children' = CalendarRows(0, children, today, activities)
  /\ call_days' = Append(call_days, today)
  /\ refire' = TRUE
  /\ UNCHANGED <<activities, today, ticks, n_clicks, bubble_type>>
  /\ UNCHANGED loadVars

\* 'Add more weeks' is clicked.
ClickAddWeeks ==
  /\ loaded
  /\ ~refire
  /\ n_clicks < MaxClicks
  /\ n_clicks' = n_clicks + 1
  /\ children' = CalendarRows(n_clicks', children, today, activities)
  /\ call_days' = Append(call_days, today)
  /\ refire' = TRUE
  /\ UNCHANGED <<activities, today, ticks, loaded, bubble_type>>
  /\ UNCHANGED loadVars

\* The dropdown's value changes.
SelectMetric(b) ==
  /\ loaded
  /\ ~refire
  /\ b # bubble_type
  /\ bubble_type' = b
  /\ children' = MetricCallback(b, children)
  /\ UNCHANGED <<activities, today, ticks, loaded, n_clicks, refire, call_days>>
  /\ UNCHANGED loadVars

\* The figure callback is registered without prevent_initial_call (lines
\* 196-197): it runs again once inserted week-cal figures are in the layout.
RefireMetric ==
  /\ refire
  /\ refire' = FALSE
  /\ children' = MetricCallback(bubble_type, children)
  /\ UNCHANGED <<activities, today, ticks, loaded, n_clicks, bubble_type, call_days>>
  /\ UNCHANGED loadVars

\* Midnight passes on the server.
Tick ==
  /\ loaded
  /\ ~refire
  /\ ticks < MaxTicks
  /\ ticks' = ticks + 1
  /\ today' = today + 1
  /\ UNCHANGED <<activities, loaded, n_clicks, children, bubble_type, refire, call_days>>
  /\ UNCHANGED loadVars

Next ==
  \/ LoadPage
  \/ ClickAddWeeks
  \/ \E b \in SelectorValues : SelectMetric(b)
  \/ RefireMetric
  \/ Tick

Spec == Init /\ [][Next]_vars

\* The figure callback alone on the first three rows: no further rows, no
\* midnight.
NextMetric ==
  \/ LoadPage
  \/ \E b \in SelectorValues : SelectMetric(b)
  \/ RefireMetric

SpecMetric == Init /\ [][NextMetric]_vars

----------------------------------------------------------------------------
(* The training-stress figure: update_figure and calc_ctl_atl *)

TssChoices == {0, 21, 42}

LoadTables ==
  UNION { [1..n -> [recorded : {24 * d : d \in 0..MaxGapDays}, tss : TssChoices]] :
            n \in 0..MaxLoadActs }

InitLoad ==
  /\ activities \in LoadTables
  /\ today \in {70}
  /\ DashIdle
  /\ LoadIdle

\* update_figure, lines 108-119: query, frame, sort.
UpdateFigure ==
  /\ pc = "idle"
  /\ df' = SortByRecorded(activities)
  /\ pc' = "calc"
  /\ UNCHANGED <<atl_pre, atl_post, ctl_pre, ctl_post, tss_fig>>
  /\ UNCHANGED activities
  /\ UNCHANGED dashVars

\* calc_ctl_atl, lines 216-224.
CalcStart ==
  /\ pc = "calc"
  /\ LET first == CalcFirst(df)
     IN /\ pc' = IF first.raised THEN "error" ELSE "loop"
        /\ atl_pre' = first.atl_pre
        /\ atl_post' = first.atl_post
        /\ ctl_pre' = first.ctl_pre
        /\ ctl_post' = first.ctl_post
  /\ UNCHANGED <<df, tss_fig, activities>>
  /\ UNCHANGED dashVars

\* calc_ctl_atl, one pass of the loop at lines 225-241.
CalcStep ==
  /\ pc = "loop"
  /\ Len(atl_pre) < Len(df)
  /\ LET i == Len(atl_pre) + 1
         delta_t_days == DeltaDays(df, i)
     IN /\ atl_pre' = Append(atl_pre, PreNext(atl_pre[i - 1], df[i - 1].tss, 7, delta_t_days))
        /\ atl_post' = Append(atl_post, PostNext(atl_post[i - 1], df[i].tss, 7, delta_t_days))
        /\ ctl_pre' = Append(ctl_pre, PreNext(ctl_pre[i - 1], df[i - 1].tss, 42, delta_t_days))
        /\ ctl_post' = Append(ctl_post, PostNext(ctl_post[i - 1], df[i].tss, 42, delta_t_days))
  /\ UNCHANGED <<pc, df, tss_fig, activities>>
  /\ UNCHANGED dashVars

\* calc_ctl_atl returns (lines 243-246) and update_figure returns the figure.
CalcReturn ==
  /\ pc = "loop"
  /\ Len(atl_pre) = Len(df)
  /\ pc' = "done"
  /\ tss_fig' = create_tss_fig(df, atl_pre, atl_post, ctl_pre, ctl_post)
  /\ UNCHANGED <<df, atl_pre, atl_post, ctl_pre, ctl_post, activities>>
  /\ UNCHANGED dashVars

NextLoad ==
  \/ UpdateFigure
  \/ CalcStart
  \/ CalcStep
  \/ CalcReturn

SpecLoad == InitLoad /\ [][NextLoad]_vars

----------------------------------------------------------------------------
(* Properties of the dashboard (specification Spec) *)

Rows == 1..Len(children)

\* The figures on display.
Figures == {children[k].figure : k \in Rows}

\* The frame a row was built from.
BucketOf(row) ==
  WeekFrame(SortByRecorded(activities), row.mon_last, row.mon_latest)

\* What a bubble chart shows: marker sizes, sizeref, label texts.
Shown(fig) == <<fig.size, fig.sizeref, fig.text>>

RoundTrip(fig, other, back) == update_week_cal(update_week_cal(fig, other), back)

IsFresh(row) == row.figure = create_week_cal(BucketOf(row))

\* The figure of a row displays metric m: as update_week_cal gives it, or,
\* for Distance, as create_week_cal gives it.
Displays(row, m) ==
  \/ Shown(row.figure) = Shown(update_week_cal(row.figure, m))
  \/ m = "Distance" /\ IsFresh(row)

\* '<h>h<m>m' with the rounded minutes carried into the hours.
CarriedTimeStr(total) ==
  IF total < 30 THEN <<"--:--">>
  ELSE LET hrs == total \div 3600
           mins == RoundHalfEven(total - hrs * 3600, 60)
       IN IF mins = 60 THEN <<ToString(hrs + 1), "h", "0", "m">>
          ELSE <<ToString(hrs), "h", ToString(mins), "m">>

\* C1: every week summary shows "--:--" for a moving-time total under 30 s
\* and otherwise hours and rounded minutes with the rounding carried, so that
\* the minutes are in 0..59 (7199 s is "2h0m").
C1_TimeStrCarries ==
  \A k \in Rows :
    children[k].summary.time_str =
      CarriedTimeStr(SumOf(BucketOf(children[k]), "moving_time_s"))

\* C2 as stated: whatever metric m a displayed figure shows (Distance for a
\* figure fresh from create_week_cal), switching to any other metric and back
\* to m reproduces sizes, sizeref and label texts exactly.
C2_RoundTripExact ==
  \A k \in Rows : \A m \in Metrics :
    Displays(children[k], m) =>
      \A other \in Metrics :
        Shown(RoundTrip(children[k].figure, other, m)) = Shown(children[k].figure)

\* C2 amended: for a figure update_week_cal produced for metric m, switching
\* to any other metric and back to m reproduces sizes, sizeref and label
\* texts exactly; for a figure fresh from create_week_cal the round trip
\* through Distance reproduces the label texts exactly, while the sizes come
\* back as the customdata miles with sizeref 26.2 / 5000.
C2_RoundTripAfterUpdate ==
  /\ \A f \in Figures : \A m \in Metrics :
       \A g \in {update_week_cal(f, m)} : \A other \in Metrics :
         \A h \in {update_week_cal(g, other)} :
           Shown(update_week_cal(h, m)) = Shown(g)
  /\ \A k \in Rows :
       IsFresh(children[k]) =>
         \A f \in {children[k].figure} : \A other \in Metrics :
           \A h \in {update_week_cal(f, other)} :
             \A g \in {update_week_cal(h, "Distance")} :
               /\ g.text = f.text
               /\ g.size = [j \in 1..Len(f.customdata) |-> f.customdata[j].dist_mi]
               /\ g.sizeref = Rat(262, 10 * 5000)

\* A displayed Distance figure with a bubble, which another metric changes
\* and the switch back restores.
C2_Witness ==
  \E k \in Rows :
    LET f == children[k].figure
    IN /\ bubble_type = "Distance"
       /\ Len(f.text) > 0
       /\ f.transition_duration = 1000
       /\ Shown(update_week_cal(f, "Time")) # Shown(f)
       /\ Shown(RoundTrip(f, "Time", "Distance")) = Shown(f)

\* C3: in each window (the three rows of one calendar-rows call) the week
\* ranges [mon_last, mon_latest) start on a Monday, are 7 days long and do
\* not overlap; an activity whose local date lies in the window's 21-day span
\* is in exactly one of the three buckets, once, and any other in none.
C3_WindowPartition ==
  \A w \in 0..(Len(call_days) - 1) :
    LET ks == {3 * w + 1, 3 * w + 2, 3 * w + 3}
        lo == children[3 * w + 3].mon_last
        hi == children[3 * w + 1].mon_latest
    IN /\ \A k \in ks :
            /\ Weekday(children[k].mon_last) = 0
            /\ children[k].mon_latest = children[k].mon_last + 7
            /\ lo <= children[k].mon_last
            /\ children[k].mon_latest <= hi
       /\ \A j \in ks : \A k \in ks :
            j # k => \/ children[j].mon_latest <= children[k].mon_last
                     \/ children[k].mon_latest <= children[j].mon_last
       /\ hi - lo = 21
       /\ \A n \in 1..Len(activities) :
            LET a == activities[n]
                places == { <<k, j>> \in ks \X (1..Len(activities)) :
                              /\ j <= Len(children[k].figure.customdata)
                              /\ children[k].figure.customdata[j].id = a.id }
                inside == lo <= LocalDate(a.recorded) /\ LocalDate(a.recorded) < hi
            IN Cardinality(places) = IF inside THEN 1 ELSE 0

\* Two windows, an activity inside the span of the first and one outside it.
C3_Witness ==
  /\ Len(children) >= 6
  /\ \E n \in 1..Len(activities) :
       /\ children[3].mon_last <= LocalDate(activities[n].recorded)
       /\ LocalDate(activities[n].recorded) < children[1].mon_latest
  /\ \E n \in 1..Len(activities) :
       LocalDate(activities[n].recorded) < children[3].mon_last

\* The fields of the figures that a metric change may touch, and customdata.
FigureData ==
  [k \in Rows |-> <<Shown(children[k].figure), children[k].figure.customdata>>]

\* C4: update_week_cal is idempotent per metric, and its output for a metric
\* does not depend on what the figure displayed before.
C4_Idempotent ==
  \A f \in Figures : \A m \in Metrics :
    \A once \in {update_week_cal(f, m)} :
      /\ Shown(update_week_cal(once, m)) = Shown(once)
      /\ \A other \in Metrics :
           \A h \in {update_week_cal(f, other)} :
             Shown(update_week_cal(h, m)) = Shown(once)

\* A figure with a bubble that the Time callback has produced.
C4_Witness ==
  \E k \in Rows :
    LET f == children[k].figure
    IN /\ bubble_type = "Time"
       /\ ~refire
       /\ Len(f.text) > 0
       /\ f.transition_duration = 1000
       /\ Shown(update_week_cal(f, "Time")) = Shown(f)

\* C5: a metric callback with a name outside the four metrics leaves every
\* bubble's size, sizeref, label text and customdata as they were.
C5_UnknownMetricNoOp ==
  [][(bubble_type' # bubble_type /\ bubble_type' \notin Metrics)
       => FigureData' = FigureData]_vars

\* The unknown name has been selected while a figure with a bubble, showing
\* other than the fresh Distance chart, was displayed.
C5_Witness ==
  /\ bubble_type = "Pace"
  /\ \E k \in Rows :
       /\ Len(children[k].figure.text) > 0
       /\ children[k].figure.sizeref # FreshSizeref

MondayOf(day) == day - Weekday(day)

\* C8: the newest bucket of window 0 is the last complete week (it ends the
\* day before the Monday of the current week and does not hold today), and
\* the buckets of window w, computed on the same date, lie 21 * w days before
\* those of window 0.
C8_NewestWeekComplete ==
  Len(children) >= 3 =>
    /\ children[1].mon_latest = MondayOf(call_days[1])
    /\ ~(children[1].mon_last <= call_days[1] /\ call_days[1] < children[1].mon_latest)
    /\ \A k \in Rows :
         LET w == (k - 1) \div 3
             k0 == ((k - 1) % 3) + 1
         IN call_days[w + 1] = call_days[1] =>
              /\ children[k].mon_last = children[k0].mon_last - 21 * w
              /\ children[k].mon_latest = children[k0].mon_latest - 21 * w

RowCount ==
  /\ Len(call_days) = IF loaded THEN n_clicks + 1 ELSE 0
  /\ Len(children) = 3 * Len(call_days)
  /\ \A k \in Rows : children[k].index = k - 1

RangesDisjoint ==
  \A j \in Rows : \A k \in Rows :
    j < k => \/ children[j].mon_latest <= children[k].mon_last
             \/ children[k].mon_latest <= children[j].mon_last

RangesContiguous ==
  \A k \in Rows : k > 1 => children[k].mon_latest = children[k - 1].mon_last

\* C9: after the initial load and n clicks there are 3 * (n + 1) rows with
\* indices 0..3n+2, and their week ranges are pairwise disjoint and
\* contiguous.
C9_RowsDisjointContiguous ==
  /\ RowCount
  /\ RangesDisjoint
  /\ RangesContiguous

\* C10: every displayed week figure shows sizes, sizeref and labels of the
\* selected metric, size and label of a bubble coming from the same metric of
\* the same activity.
C10_FiguresShowSelected ==
  bubble_type \in Metrics => \A k \in Rows : Displays(children[k], bubble_type)

----------------------------------------------------------------------------
(* Properties of the training-load series (specification SpecLoad) *)

\* C6: the first sample's before values are zero; each later before value is
\* the previous after value decayed over the gap, and each after value is the
\* before value plus tss / 7 (ATL) or tss / 42 (CTL).
C6_PreFromPost ==
  /\ Len(atl_post) = Len(atl_pre)
  /\ Len(ctl_pre) = Len(atl_pre)
  /\ Len(ctl_post) = Len(atl_pre)
  /\ \A i \in 1..Len(atl_pre) :
       /\ i = 1 => atl_pre[i] = <<0, 1>> /\ ctl_pre[i] = <<0, 1>>
       /\ i > 1 =>
            /\ atl_pre[i] = RatMul(atl_post[i - 1], RatPow(<<6, 7>>, DeltaDays(df, i)))
            /\ ctl_pre[i] = RatMul(ctl_post[i - 1], RatPow(<<41, 42>>, DeltaDays(df, i)))
       /\ atl_post[i] = RatAdd(atl_pre[i], Rat(df[i].tss, 7))
       /\ ctl_post[i] = RatAdd(ctl_pre[i], Rat(df[i].tss, 42))

\* A finished series of three samples, every gap and every score positive.
C6_Witness ==
  /\ pc = "done"
  /\ Len(df) = 3
  /\ \A i \in 1..3 : df[i].tss > 0
  /\ \A i \in 2..3 : DeltaDays(df, i) > 0

\* C7: with no activities the calculation ends in the error and gives no
\* series and no figure.
C7_EmptyRaises ==
  Len(activities) = 0 =>
    /\ pc \in {"idle", "calc", "error"}
    /\ tss_fig = NoFigure
    /\ atl_pre = <<>> /\ atl_post = <<>> /\ ctl_pre = <<>> /\ ctl_post = <<>>

C7_Witness ==
  /\ Len(activities) = 0
  /\ pc = "error"

====
